---- MODULE Spec2Model ----
(***************************************************************************)
(* A model of github.com/akabos/go-socks, package socks: the SOCKS5 client *)
(* handshake (Dialer.Dial / Dialer.connect), the dialer options and the    *)
(* Proxy front end.                                                        *)
(*                                                                         *)
(* Strings are sequences of byte values (ASCII codes); Go's nil error is   *)
(* the string Nil, every other error is its message.  The stream handed to *)
(* NewDialer is the record conn: an open/closed flag and the log of the    *)
(* operations performed on it, each with the caller that performed it.     *)
(***************************************************************************)
EXTENDS Integers, Sequences, FiniteSets, TLC

VARIABLES
    stage,   \* what has been constructed: "new" nothing, "proxy" a Proxy,
             \* "ready" a shared Dialer, "private" the Dialer of a Proxy.Dial
             \* call, "failed" a constructor returned an error
    proxy,   \* the Proxy value (proxy.go:10-15)
    opts,    \* the options NewDialer was called with
    newErr,  \* the error returned by the constructor / by Proxy.Dial's DialTCP
    d,       \* the Dialer (dialer.go:95-109), without conn and mux
    mux,     \* d.mux: TRUE when locked
    conn,    \* d.conn: the stream
    buf,     \* connect's working slice buf: backing array and length
    args,    \* per caller: the arguments of its Dial call
    pc,      \* per caller: its position in Dial / connect
    ret      \* per caller: what its Dial call returned

vars == <<stage, proxy, opts, newErr, d, mux, conn, buf, args, pc, ret>>

(***************************************************************************)
(* Bounds of the model.                                                    *)
(***************************************************************************)
\* number of goroutines that call Dial on the one Dialer
NumCallers == 3
\* connect-reply status bytes 0..MaxStatus are tried (and 255)
MaxStatus == 9
\* NewDialer is given at most MaxOpts options
MaxOpts == 3

Callers == 1 .. NumCallers

(***************************************************************************)
(* Constants of dialer.go:17-44.                                           *)
(***************************************************************************)
protocolVersion == 5
authNone == 0
authGssAPI == 1
authUsernamePassword == 2
authUnavailable == 255
commandTCPConnect == 1
addressTypeIPv4 == 1
addressTypeDomain == 3
addressTypeIPv6 == 4
statusRequestGranted == 0

Nil == "nil"
ErrAuthFailed == "authentication failed"
ErrInvalidProxyResponse == "invalid proxy response"
ErrNoAcceptableAuthMethod == "no acceptable authentication method"
ErrConnUsed == "connection already used"
ErrCredentialsSet == "credentials already set"

\* the map without its entry for statusConnectionRefused
statusErrorsNoRefused(s) ==
    CASE s = 1 -> "general failure"
      [] s = 2 -> "connection not allowed by ruleset"
      [] s = 3 -> "network unreachable"
      [] s = 4 -> "host unreachable"
      [] s = 6 -> "TTL expired"
      [] s = 7 -> "command not supported / protocol error"
      [] s = 8 -> "address type not supported"
      [] OTHER -> Nil

\* statusErrors[s], Nil when s is no key of the map (dialer.go:53-62)
statusErrors(s) ==
    CASE s = 1 -> "general failure"
      [] s = 2 -> "connection not allowed by ruleset"
      [] s = 3 -> "network unreachable"
      [] s = 4 -> "host unreachable"
      [] s = 5 -> "connection refused by destination host"
      [] s = 6 -> "TTL expired"
      [] s = 7 -> "command not supported / protocol error"
      [] s = 8 -> "address type not supported"
      [] OTHER -> Nil

(***************************************************************************)
(* Bytes and strings.                                                      *)
(***************************************************************************)
\* Go's byte(n) of an int n
Byte(n) == n % 256

\* the string of n bytes c
Rep(c, n) == [i \in 1 .. n |-> c]

\* hex.EncodeToString of a byte sequence: two lowercase hex digits per byte
HexDigit(n) == IF n < 10 THEN 48 + n ELSE 87 + n

EncodeToString(bs) ==
    [i \in 1 .. 2 * Len(bs) |->
        IF i % 2 = 1 THEN HexDigit(bs[(i + 1) \div 2] \div 16)
                     ELSE HexDigit(bs[i \div 2] % 16)]

\* the index of the last byte c in s, 0 when there is none (58 is ':')
LastIndex(s, c) ==
    LET I == {i \in 1 .. Len(s) : s[i] = c}
    IN  IF I = {} THEN 0 ELSE CHOOSE i \in I : \A j \in I : j <= i

\* net.SplitHostPort on an address without brackets
SplitHostPort(a) ==
    LET i == LastIndex(a, 58)
        host == SubSeq(a, 1, i - 1)
        port == SubSeq(a, i + 1, Len(a))
    IN  IF i = 0
        THEN [host |-> <<>>, port |-> <<>>, err |-> "missing port in address"]
        ELSE IF LastIndex(host, 58) # 0
        THEN [host |-> <<>>, port |-> <<>>, err |-> "too many colons in address"]
        ELSE [host |-> host, port |-> port, err |-> Nil]

IsDigit(c) == c >= 48 /\ c <= 57

RECURSIVE DigitsValue(_, _)
DigitsValue(s, acc) ==
    IF s = <<>> THEN acc ELSE DigitsValue(Tail(s), 10 * acc + (Head(s) - 48))

\* strconv.Atoi: an optional sign (43 '+', 45 '-') and decimal digits
Atoi(s) ==
    LET signed == s # <<>> /\ Head(s) \in {45, 43}
        digits == IF signed THEN Tail(s) ELSE s
    IN  IF digits = <<>> \/ \E i \in 1 .. Len(digits) : ~IsDigit(digits[i])
        THEN [val |-> 0, err |-> "strconv.Atoi: invalid syntax"]
        ELSE [val |-> IF signed /\ Head(s) = 45
                      THEN 0 - DigitsValue(digits, 0)
                      ELSE DigitsValue(digits, 0),
              err |-> Nil]

(***************************************************************************)
(* Slices: buf is a backing array and a length; the slice starts at the    *)
(* array's first element throughout connect, so cap(buf) = Len(buf.arr).   *)
(***************************************************************************)
NoBuf == [arr |-> <<>>, len |-> 0]

\* make([]byte, n)
MakeBuf(n) == [arr |-> Rep(0, n), len |-> n]

Cap(b) == Len(b.arr)

\* buf[:n]
Reslice(b, n) == [b EXCEPT !.len = n]

\* buf[i] = v, i counted from 0
SetAt(b, i, v) == [b EXCEPT !.arr[i + 1] = v]

\* copy(buf[off:], s)
CopyAt(b, off, s) ==
    LET n == IF Len(s) < b.len - off THEN Len(s) ELSE b.len - off
    IN  [b EXCEPT !.arr = [k \in 1 .. Len(b.arr) |->
            IF k > off /\ k <= off + n THEN s[k - off] ELSE b.arr[k]]]

\* the bytes of the slice
Bytes(b) == SubSeq(b.arr, 1, b.len)

\* buf[i], i counted from 0
At(b, i) == b.arr[i + 1]

(***************************************************************************)
(* The inputs tried.                                                       *)
(***************************************************************************)
UserU == <<117>>
PassP == <<112>>
HostH == <<104>>
\* a string one byte too long for a one-byte length prefix
Long(c) == Rep(c, 256)

\* (username, password) pairs given to DialerAuth and NewProxyAuth
CredPairs == { <<UserU, PassP>>, << <<>>, PassP>>, <<Long(85), Long(80)>> }

\* what io.ReadFull(rand.Reader, b[:]) leaves in b: bytes with every kind of
\* hex digit
RandReads ==
    { <<0, 9, 10, 15, 16, 159, 160, 255, 1, 35, 69, 103, 137, 171, 205, 239>> }

AuthOpt(u, p) ==
    [kind |-> "auth", user |-> u, pass |-> p, rand |-> <<>>, randErr |-> Nil]

TorOpt(r, e) ==
    [kind |-> "tor", user |-> <<>>, pass |-> <<>>, rand |-> r, randErr |-> e]

AuthOpts == { AuthOpt(c[1], c[2]) : c \in CredPairs }

TorOpts ==
    { TorOpt(r, Nil) : r \in RandReads } \cup { TorOpt(<<>>, "rand: read failed") }

\* the option lists NewDialer is called with
OptSeqs == { <<>> } \cup { <<o>> : o \in AuthOpts \cup TorOpts }

Networks == { "tcp" }

Hosts == { <<>>, HostH, Rep(97, 255), Long(97) }

\* "443", "0", "65535", "65536"
PortStrings ==
    { <<52, 52, 51>>, <<48>>, <<54, 53, 53, 51, 53>>, <<54, 53, 53, 51, 54>> }

\* the addr arguments of Dial: every host with port 443, host "h" with every
\* port, and addresses SplitHostPort ("h", "h:h:80") or Atoi ("h:x") rejects
Addrs ==
    { h \o <<58>> \o <<52, 52, 51>> : h \in Hosts }
    \cup { HostH \o <<58>> \o p : p \in PortStrings }
    \cup { HostH, HostH \o <<58, 120>>,
           HostH \o <<58>> \o HostH \o <<58, 56, 48>> }

WriteErrs == { "write: broken pipe" }
ReadErrs == { "EOF", "unexpected EOF" }

\* the server's method-selection replies
MethodReplies ==
    { <<5, m>> : m \in {0, 1, 2, 3, 255} } \cup { <<4, m>> : m \in {0, 2} }
\* the server's username/password replies
AuthReplies == { <<1, s>> : s \in {0, 1, 255} } \cup { <<5, 0>>, <<0, 1>> }
\* the first four bytes of the server's connect replies
StatusBytes == (0 .. MaxStatus) \cup {255}
ReplyHeads ==
    { <<5, 0, 0, t>> : t \in {1, 2, 3, 4} }
    \cup { <<5, s, 0, 1>> : s \in StatusBytes }
    \cup { <<4, 0, 0, 1>>, <<4, 5, 0, 3>> }
\* the length prefixes of a domain-shaped bound address
DomLens == { 0, 32, 33, 255 }

(***************************************************************************)
(* The stream.                                                             *)
(***************************************************************************)
OpenConn == [closed |-> FALSE, log |-> <<>>]

\* conn.Write(frame) by caller p, returning e
WriteOp(c, p, frame, e) ==
    [c EXCEPT !.log = Append(@, [op |-> "write", by |-> p, n |-> Len(frame),
                                 data |-> frame, err |-> e])]

\* io.ReadFull(conn, b) with len(b) = n by caller p: data read, or error e
ReadOp(c, p, n, data, e) ==
    [c EXCEPT !.log = Append(@, [op |-> "read", by |-> p, n |-> n,
                                 data |-> data, err |-> e])]

\* conn.Close() by caller p
CloseOp(c, p) ==
    [c EXCEPT !.closed = TRUE,
              !.log = Append(@, [op |-> "close", by |-> p, n |-> 0,
                                 data |-> <<>>, err |-> Nil])]

\* the outcomes of io.ReadFull for n > 0 bytes: one of the replies, or an error
ReadResults(replies) ==
    { [data |-> r, err |-> Nil] : r \in replies }
    \cup { [data |-> <<>>, err |-> e] : e \in ReadErrs }

WriteResults == { Nil } \cup WriteErrs

(***************************************************************************)
(* Dialer options and NewDialer (dialer.go:65-121).                        *)
(***************************************************************************)
ZeroDialer ==
    [user |-> <<>>, pass |-> <<>>, torIsolation |-> FALSE, used |-> FALSE,
     net |-> "", host |-> <<>>, port |-> 0, err |-> Nil]

\* the option returned by DialerAuth(user, pass), applied to dd
DialerAuth(dd, o) ==
    [d |-> [dd EXCEPT !.user = o.user, !.pass = o.pass], err |-> Nil]

\* the option with its test written as d.user != "" && d.pass != ""
DialerTorIsolationBoth(dd, o) ==
    IF dd.user # <<>> /\ dd.pass # <<>>
    THEN [d |-> dd, err |-> ErrCredentialsSet]
    ELSE IF o.randErr # Nil
    THEN [d |-> dd, err |-> o.randErr]
    ELSE [d |-> [dd EXCEPT !.user = EncodeToString(SubSeq(o.rand, 1, 8)),
                           !.pass = EncodeToString(SubSeq(o.rand, 9, 16))],
          err |-> Nil]

\* the option returned by DialerTorIsolation(), applied to dd
DialerTorIsolation(dd, o) ==
    IF dd.user # <<>> \/ dd.pass # <<>>
    THEN [d |-> dd, err |-> ErrCredentialsSet]
    ELSE IF o.randErr # Nil
    THEN [d |-> dd, err |-> o.randErr]
    ELSE [d |-> [dd EXCEPT !.user = EncodeToString(SubSeq(o.rand, 1, 8)),
                           !.pass = EncodeToString(SubSeq(o.rand, 9, 16))],
          err |-> Nil]

ApplyOpt(dd, o) ==
    IF o.kind = "auth" THEN DialerAuth(dd, o) ELSE DialerTorIsolation(dd, o)

\* NewDialer(conn, os...): the dialer and a nil error, or no dialer and the
\* error of the first option that fails
RECURSIVE ApplyOpts(_, _)
ApplyOpts(dd, os) ==
    IF os = <<>>
    THEN [d |-> dd, err |-> Nil]
    ELSE LET r == ApplyOpt(dd, Head(os))
         IN  IF r.err # Nil
             THEN [d |-> ZeroDialer, err |-> r.err]
             ELSE ApplyOpts(r.d, Tail(os))

NewDialer(os) == ApplyOpts(ZeroDialer, os)

(***************************************************************************)
(* Proxy (proxy.go).                                                       *)
(***************************************************************************)
ZeroProxy == [Username |-> <<>>, Password |-> <<>>, TorIsolation |-> FALSE]

\* the options Proxy.Dialer passes to NewDialer; r, e: the random read
ProxyDialerOpts(pr, r, e) ==
    IF pr.TorIsolation
    THEN <<TorOpt(r, e)>>
    ELSE <<AuthOpt(pr.Username, pr.Password)>>

\* the Dialer Proxy.Dial builds for its connection
ProxyDialDialer(pr) == ZeroDialer

(***************************************************************************)
(* The initial state: nothing constructed, a connected stream, no caller   *)
(* in Dial.                                                                *)
(***************************************************************************)
NoRet == [conn |-> FALSE, err |-> Nil]
NoArgs == [network |-> "", addr |-> <<>>]

Init ==
    /\ stage = "new"
    /\ proxy = ZeroProxy
    /\ opts = <<>>
    /\ newErr = Nil
    /\ d = ZeroDialer
    /\ mux = FALSE
    /\ conn = OpenConn
    /\ buf = NoBuf
    /\ args = [p \in Callers |-> NoArgs]
    /\ pc = [p \in Callers |-> "idle"]
    /\ ret = [p \in Callers |-> NoRet]

\* a panic that nothing recovers ends the program
Crashed == \E p \in Callers : pc[p] = "panic"

\* caller p is at position pos and the program runs
AtPos(p, pos) == pc[p] = pos /\ ~Crashed

\* d, err := NewDialer(conn, os...)
NewDialerStep ==
    /\ stage = "new"
    /\ \E os \in OptSeqs :
         LET r == NewDialer(os)
         IN  /\ opts' = os
             /\ d' = r.d
             /\ newErr' = r.err
             /\ stage' = IF r.err = Nil THEN "ready" ELSE "failed"
    /\ UNCHANGED <<proxy, mux, conn, buf, args, pc, ret>>

\* NewProxy(addr): ok is whether net.ResolveTCPAddr succeeds
NewProxyStep ==
    /\ stage = "new"
    /\ \E ok \in BOOLEAN :
         /\ stage' = IF ok THEN "proxy" ELSE "failed"
         /\ newErr' = IF ok THEN Nil ELSE "resolve: no such host"
    /\ proxy' = ZeroProxy
    /\ UNCHANGED <<opts, d, mux, conn, buf, args, pc, ret>>

\* NewProxyAuth(addr, user, pass)
NewProxyAuthStep ==
    /\ stage = "new"
    /\ \E ok \in BOOLEAN, c \in CredPairs :
         /\ stage' = IF ok THEN "proxy" ELSE "failed"
         /\ newErr' = IF ok THEN Nil ELSE "resolve: no such host"
         /\ proxy' = IF ok
                     THEN [ZeroProxy EXCEPT !.Username = c[1], !.Password = c[2]]
                     ELSE ZeroProxy
    /\ UNCHANGED <<opts, d, mux, conn, buf, args, pc, ret>>

\* NewProxyTorIsolation(addr)
NewProxyTorIsolationStep ==
    /\ stage = "new"
    /\ \E ok \in BOOLEAN :
         /\ stage' = IF ok THEN "proxy" ELSE "failed"
         /\ newErr' = IF ok THEN Nil ELSE "resolve: no such host"
         /\ proxy' = IF ok THEN [ZeroProxy EXCEPT !.TorIsolation = TRUE]
                           ELSE ZeroProxy
    /\ UNCHANGED <<opts, d, mux, conn, buf, args, pc, ret>>

\* d, err := p.Dialer(c)
ProxyDialerStep ==
    /\ stage = "proxy"
    /\ \E t \in TorOpts :
         LET os == ProxyDialerOpts(proxy, t.rand, t.randErr)
             r == NewDialer(os)
         IN  /\ opts' = os
             /\ d' = r.d
             /\ newErr' = r.err
             /\ stage' = IF r.err = Nil THEN "ready" ELSE "failed"
    /\ UNCHANGED <<proxy, mux, conn, buf, args, pc, ret>>

\* p.Dial(network, addr) up to its call of d.Dial: ok is whether net.DialTCP
\* succeeds; the Dialer is private to this call
ProxyDial(p) ==
    /\ stage = "proxy"
    /\ AtPos(p, "idle")
    /\ \E ok \in BOOLEAN :
         IF ok
         THEN /\ d' = ProxyDialDialer(proxy)
              /\ stage' = "private"
              /\ UNCHANGED <<newErr, pc, ret>>
         ELSE /\ stage' = "failed"
              /\ newErr' = "dial tcp: connection refused"
              /\ pc' = [pc EXCEPT ![p] = "done"]
              /\ ret' = [ret EXCEPT ![p] = [conn |-> FALSE,
                                            err |-> "dial tcp: connection refused"]]
              /\ d' = d
    /\ UNCHANGED <<proxy, opts, mux, conn, buf, args>>

(***************************************************************************)
(* Dial (dialer.go:124-153).                                               *)
(***************************************************************************)
Return(p, c, e) ==
    /\ pc' = [pc EXCEPT ![p] = "done"]
    /\ ret' = [ret EXCEPT ![p] = [conn |-> c, err |-> e]]

\* a Lock that never blocks: Dial without its mutex
CanLockNoMutex(m) == TRUE

\* whether d.mux.Lock() may proceed
CanLock(m) == ~m

\* a guard that never finds the Dialer used
IsUsedNever(dd) == FALSE

\* the guard of Dial: d.used
IsUsed(dd) == dd.used

\* caller p is in Dial and gets past d.mux.Lock(): a caller at "idle" has not
\* called Dial yet, or is blocked in Lock
DialLock(p) ==
    /\ stage \in {"ready", "private"}
    /\ AtPos(p, "idle")
    /\ CanLock(mux)
    /\ mux' = TRUE
    /\ pc' = [pc EXCEPT ![p] = "check"]
    /\ UNCHANGED <<stage, proxy, opts, newErr, d, conn, buf, args, ret>>

\* if d.used { return nil, ErrConnUsed }: the mutex stays locked
DialCheckUsed(p) ==
    /\ AtPos(p, "check")
    /\ IF IsUsed(d)
       THEN Return(p, FALSE, ErrConnUsed)
       ELSE pc' = [pc EXCEPT ![p] = "set"] /\ ret' = ret
    /\ UNCHANGED <<stage, proxy, opts, newErr, d, mux, conn, buf, args>>

\* d.used = true
DialSetUsed(p) ==
    /\ AtPos(p, "set")
    /\ d' = [d EXCEPT !.used = TRUE]
    /\ pc' = [pc EXCEPT ![p] = "unlock"]
    /\ UNCHANGED <<stage, proxy, opts, newErr, mux, conn, buf, args, ret>>

\* d.mux.Unlock()
DialUnlock(p) ==
    /\ AtPos(p, "unlock")
    /\ mux' = FALSE
    /\ pc' = [pc EXCEPT ![p] = "parse"]
    /\ UNCHANGED <<stage, proxy, opts, newErr, d, conn, buf, args, ret>>

\* net.SplitHostPort, strconv.Atoi and the assignments to d.net, d.host and
\* d.port; the arguments of the call are drawn here, where they are first read
DialParse(p) ==
    /\ AtPos(p, "parse")
    /\ \E n \in Networks, a \in Addrs :
         LET sp == SplitHostPort(a)
             at == Atoi(sp.port)
         IN  /\ args' = [args EXCEPT ![p] = [network |-> n, addr |-> a]]
             /\ IF sp.err # Nil
                THEN Return(p, FALSE, sp.err) /\ d' = d
                ELSE IF at.err # Nil
                THEN Return(p, FALSE, at.err) /\ d' = d
                ELSE /\ d' = [d EXCEPT !.net = n, !.host = sp.host, !.port = at.val]
                     /\ pc' = [pc EXCEPT ![p] = "greeting"]
                     /\ ret' = ret
    /\ UNCHANGED <<stage, proxy, opts, newErr, mux, conn, buf>>

\* after d.connect(): close and return d.err, or return d.conn
DialFinish(p) ==
    /\ AtPos(p, "finish")
    /\ IF d.err # Nil
       THEN conn' = CloseOp(conn, p) /\ Return(p, FALSE, d.err)
       ELSE conn' = conn /\ Return(p, TRUE, Nil)
    /\ UNCHANGED <<stage, proxy, opts, newErr, d, mux, buf, args>>

(***************************************************************************)
(* connect (dialer.go:155-293).  Each action is one operation on the       *)
(* stream with the code around it; when connect returns, buf is dropped.   *)
(***************************************************************************)
\* buf after lines 156-169: the greeting
GreetingBuf(dd) ==
    LET b0 == SetAt(MakeBuf(32 + Len(dd.host) + Len(dd.user) + Len(dd.pass)),
                    0, protocolVersion)
    IN  IF dd.user # <<>>
        THEN SetAt(SetAt(SetAt(Reslice(b0, 4), 1, 2), 2, authNone),
                   3, authUsernamePassword)
        ELSE SetAt(SetAt(Reslice(b0, 3), 1, 1), 2, authNone)

\* buf after lines 198-203: the username/password request
AuthBuf(b, dd) ==
    LET b1 == Reslice(b, 3 + Len(dd.user) + Len(dd.pass))
        b2 == SetAt(b1, 0, 1)
        b3 == SetAt(b2, 1, Byte(Len(dd.user)))
        b4 == CopyAt(b3, 2, dd.user)
        b5 == SetAt(b4, 2 + Len(dd.user), Byte(Len(dd.pass)))
    IN  CopyAt(b5, 3 + Len(dd.user), dd.pass)

\* the high byte without its shift: byte(d.port)
PortHiNoShift(port) == Byte(port)

\* byte(d.port >> 8) and byte(d.port & 0xff)
PortHi(port) == Byte(port \div 256)
PortLo(port) == Byte(port % 256)

\* buf after lines 227-235: the connect request
RequestBuf(b, dd) ==
    LET b1 == Reslice(b, 7 + Len(dd.host))
        b2 == SetAt(b1, 0, protocolVersion)
        b3 == SetAt(b2, 1, commandTCPConnect)
        b4 == SetAt(b3, 2, 0)
        b5 == SetAt(b4, 3, addressTypeDomain)
        b6 == SetAt(b5, 4, Byte(Len(dd.host)))
        b7 == CopyAt(b6, 5, dd.host)
        b8 == SetAt(b7, 5 + Len(dd.host), PortHi(dd.port))
    IN  SetAt(b8, 6 + Len(dd.host), PortLo(dd.port))

\* connect returns with d.err = e
ConnectReturn(p, e) ==
    /\ d' = [d EXCEPT !.err = e]
    /\ buf' = NoBuf
    /\ pc' = [pc EXCEPT ![p] = "finish"]

\* connect goes on to position next with d.err = e and buf = b
ConnectGoto(p, next, e, b) ==
    /\ d' = [d EXCEPT !.err = e]
    /\ buf' = b
    /\ pc' = [pc EXCEPT ![p] = next]

\* the write without the test of d.err that follows it
ConnectWriteUnchecked(p, b, next) ==
    \E e \in WriteResults :
        /\ conn' = WriteOp(conn, p, Bytes(b), e)
        /\ ConnectGoto(p, next, e, b)

\* _, d.err = d.conn.Write(buf) with buf = b; on success go on to next
ConnectWrite(p, b, next) ==
    \E e \in WriteResults :
        /\ conn' = WriteOp(conn, p, Bytes(b), e)
        /\ IF e # Nil THEN ConnectReturn(p, e) ELSE ConnectGoto(p, next, Nil, b)

\* lines 156-174
ConnectGreeting(p) ==
    /\ AtPos(p, "greeting")
    /\ ConnectWrite(p, GreetingBuf(d), "method")
    /\ UNCHANGED <<stage, proxy, opts, newErr, mux, args, ret>>

\* the switch without its case authGssAPI, which then falls to default
MethodNextNoGss(b) ==
    IF At(b, 0) # protocolVersion
    THEN [next |-> "finish", err |-> ErrInvalidProxyResponse]
    ELSE CASE At(b, 1) = authUnavailable ->
                [next |-> "finish", err |-> ErrNoAcceptableAuthMethod]
           [] At(b, 1) = authUsernamePassword ->
                [next |-> "auth", err |-> Nil]
           [] At(b, 1) = authNone ->
                [next |-> "request", err |-> Nil]
           [] OTHER ->
                [next |-> "finish", err |-> ErrInvalidProxyResponse]

\* what lines 182-223 decide from the method-selection reply in b
MethodNext(b) ==
    IF At(b, 0) # protocolVersion
    THEN [next |-> "finish", err |-> ErrInvalidProxyResponse]
    ELSE CASE At(b, 1) = authUnavailable ->
                [next |-> "finish", err |-> ErrNoAcceptableAuthMethod]
           [] At(b, 1) = authGssAPI ->
                [next |-> "finish", err |-> ErrNoAcceptableAuthMethod]
           [] At(b, 1) = authUsernamePassword ->
                [next |-> "auth", err |-> Nil]
           [] At(b, 1) = authNone ->
                [next |-> "request", err |-> Nil]
           [] OTHER ->
                [next |-> "finish", err |-> ErrInvalidProxyResponse]

\* lines 178-196, 221-223: read and judge the server's auth choice
ConnectMethod(p) ==
    /\ AtPos(p, "method")
    /\ \E r \in ReadResults(MethodReplies) :
         /\ conn' = ReadOp(conn, p, 2, r.data, r.err)
         /\ IF r.err # Nil
            THEN ConnectReturn(p, r.err)
            ELSE LET b == CopyAt(buf, 0, r.data)
                     m == MethodNext(b)
                 IN  IF m.next = "finish"
                     THEN ConnectReturn(p, m.err)
                     ELSE ConnectGoto(p, m.next, Nil, b)
    /\ UNCHANGED <<stage, proxy, opts, newErr, mux, args, ret>>

\* lines 198-208: write the username/password request
ConnectAuthWrite(p) ==
    /\ AtPos(p, "auth")
    /\ ConnectWrite(p, AuthBuf(buf, d), "authreply")
    /\ UNCHANGED <<stage, proxy, opts, newErr, mux, args, ret>>

\* a status check that knows only status 1 as a failure
AuthReplyErrOnlyOne(b) ==
    IF At(b, 0) # 1 THEN ErrInvalidProxyResponse
    ELSE IF At(b, 1) = 1 THEN ErrAuthFailed
    ELSE Nil

\* the two tests of the username/password reply in the other order
AuthReplyErrStatusFirst(b) ==
    IF At(b, 1) # 0 THEN ErrAuthFailed
    ELSE IF At(b, 0) # 1 THEN ErrInvalidProxyResponse
    ELSE Nil

\* what lines 214-220 decide from the username/password reply in b
AuthReplyErr(b) ==
    IF At(b, 0) # 1 THEN ErrInvalidProxyResponse
    ELSE IF At(b, 1) # 0 THEN ErrAuthFailed
    ELSE Nil

\* lines 209-220: read and judge the username/password reply
ConnectAuthReply(p) ==
    /\ AtPos(p, "authreply")
    /\ \E r \in ReadResults(AuthReplies) :
         /\ conn' = ReadOp(conn, p, 2, r.data, r.err)
         /\ IF r.err # Nil
            THEN ConnectReturn(p, r.err)
            ELSE LET b == CopyAt(buf, 0, r.data)
                     e == AuthReplyErr(b)
                 IN  IF e # Nil
                     THEN ConnectReturn(p, e)
                     ELSE ConnectGoto(p, "request", Nil, b)
    /\ UNCHANGED <<stage, proxy, opts, newErr, mux, args, ret>>

\* lines 227-240: write the connect request
ConnectRequest(p) ==
    /\ AtPos(p, "request")
    /\ ConnectWrite(p, RequestBuf(buf, d), "reply")
    /\ UNCHANGED <<stage, proxy, opts, newErr, mux, args, ret>>

\* the switch on buf[3] without its case addressTypeIPv4
ReplyNextNoIPv4(b) ==
    IF At(b, 0) # protocolVersion
    THEN [next |-> "finish", err |-> ErrInvalidProxyResponse]
    ELSE IF At(b, 1) # statusRequestGranted
    THEN [next |-> "finish",
          err |-> IF statusErrors(At(b, 1)) = Nil
                  THEN ErrInvalidProxyResponse
                  ELSE statusErrors(At(b, 1))]
    ELSE CASE At(b, 3) = addressTypeIPv6 -> [next |-> "addr16", err |-> Nil]
           [] At(b, 3) = addressTypeDomain -> [next |-> "domlen", err |-> Nil]
           [] OTHER -> [next |-> "port", err |-> ErrInvalidProxyResponse]

\* what lines 249-285 decide from the first four bytes of the reply in b; the
\* default case of the switch on buf[3] sets d.err and goes on to line 287
ReplyNext(b) ==
    IF At(b, 0) # protocolVersion
    THEN [next |-> "finish", err |-> ErrInvalidProxyResponse]
    ELSE IF At(b, 1) # statusRequestGranted
    THEN [next |-> "finish",
          err |-> IF statusErrors(At(b, 1)) = Nil
                  THEN ErrInvalidProxyResponse
                  ELSE statusErrors(At(b, 1))]
    ELSE CASE At(b, 3) = addressTypeIPv4 -> [next |-> "addr4", err |-> Nil]
           [] At(b, 3) = addressTypeIPv6 -> [next |-> "addr16", err |-> Nil]
           [] At(b, 3) = addressTypeDomain -> [next |-> "domlen", err |-> Nil]
           [] OTHER -> [next |-> "port", err |-> ErrInvalidProxyResponse]

\* lines 244-264: read and judge the head of the server's reply
ConnectReply(p) ==
    /\ AtPos(p, "reply")
    /\ \E r \in ReadResults(ReplyHeads) :
         /\ conn' = ReadOp(conn, p, 4, r.data, r.err)
         /\ IF r.err # Nil
            THEN ConnectReturn(p, r.err)
            ELSE LET b == CopyAt(buf, 0, r.data)
                     m == ReplyNext(b)
                 IN  IF m.next = "finish"
                     THEN ConnectReturn(p, m.err)
                     ELSE ConnectGoto(p, m.next, m.err, b)
    /\ UNCHANGED <<stage, proxy, opts, newErr, mux, args, ret>>

\* lines 265-274: read an IPv4- or IPv6-shaped bound address
ConnectAddr(p) ==
    /\ AtPos(p, "addr4") \/ AtPos(p, "addr16")
    /\ LET n == IF pc[p] = "addr4" THEN 4 ELSE 16
       IN  \E r \in ReadResults({Rep(0, n)}) :
             /\ conn' = ReadOp(conn, p, n, r.data, r.err)
             /\ IF r.err # Nil
                THEN ConnectReturn(p, r.err)
                ELSE ConnectGoto(p, "port", Nil, CopyAt(buf, 0, r.data))
    /\ UNCHANGED <<stage, proxy, opts, newErr, mux, args, ret>>

\* lines 276-279: read the length prefix of a domain-shaped bound address
ConnectDomLen(p) ==
    /\ AtPos(p, "domlen")
    /\ \E r \in ReadResults({ <<l>> : l \in DomLens }) :
         /\ conn' = ReadOp(conn, p, 1, r.data, r.err)
         /\ IF r.err # Nil
            THEN ConnectReturn(p, r.err)
            ELSE ConnectGoto(p, "domain", Nil, CopyAt(buf, 0, r.data))
    /\ UNCHANGED <<stage, proxy, opts, newErr, mux, args, ret>>

\* whether buf[:n] is within the slice's capacity
SliceInRange(b, n) == n <= Cap(b)

\* lines 280-284: domLen := buf[0]; io.ReadFull(d.conn, buf[:domLen]).
\* buf[:domLen] beyond cap(buf) panics; io.ReadFull into an empty slice
\* returns nil without reading
ConnectDomain(p) ==
    /\ AtPos(p, "domain")
    /\ LET domLen == At(buf, 0)
       IN  IF ~SliceInRange(buf, domLen)
           THEN /\ pc' = [pc EXCEPT ![p] = "panic"]
                /\ UNCHANGED <<d, buf, conn>>
           ELSE IF domLen = 0
           THEN ConnectGoto(p, "port", Nil, buf) /\ conn' = conn
           ELSE \E r \in ReadResults({Rep(97, domLen)}) :
                  /\ conn' = ReadOp(conn, p, domLen, r.data, r.err)
                  /\ IF r.err # Nil
                     THEN ConnectReturn(p, r.err)
                     ELSE ConnectGoto(p, "port", Nil, CopyAt(buf, 0, r.data))
    /\ UNCHANGED <<stage, proxy, opts, newErr, mux, args, ret>>

\* the read of the bound port with its error dropped
ConnectPortUnchecked(p) ==
    /\ AtPos(p, "port")
    /\ \E r \in ReadResults({ <<0, 80>> }) :
         /\ conn' = ReadOp(conn, p, 2, r.data, r.err)
         /\ ConnectReturn(p, Nil)
    /\ UNCHANGED <<stage, proxy, opts, newErr, mux, args, ret>>

\* lines 287-292: read the bound port; d.err is whatever this read returns
ConnectPort(p) ==
    /\ AtPos(p, "port")
    /\ \E r \in ReadResults({ <<0, 80>> }) :
         /\ conn' = ReadOp(conn, p, 2, r.data, r.err)
         /\ ConnectReturn(p, r.err)
    /\ UNCHANGED <<stage, proxy, opts, newErr, mux, args, ret>>

(***************************************************************************)
(* The specifications.                                                     *)
(***************************************************************************)
\* the steps of caller p inside Dial
DialSteps(p) ==
    \/ DialLock(p)
    \/ DialCheckUsed(p)
    \/ DialSetUsed(p)
    \/ DialUnlock(p)
    \/ DialParse(p)
    \/ ConnectGreeting(p)
    \/ ConnectMethod(p)
    \/ ConnectAuthWrite(p)
    \/ ConnectAuthReply(p)
    \/ ConnectRequest(p)
    \/ ConnectReply(p)
    \/ ConnectAddr(p)
    \/ ConnectDomLen(p)
    \/ ConnectDomain(p)
    \/ ConnectPort(p)
    \/ DialFinish(p)

\* a Dialer built by NewDialer and shared by the callers
Next ==
    \/ NewDialerStep
    \/ \E p \in Callers : DialSteps(p)

Spec == Init /\ [][Next]_vars

\* a Proxy, and the one caller of its Dialer or of its Dial
NextProxy ==
    \/ NewProxyStep
    \/ NewProxyAuthStep
    \/ NewProxyTorIsolationStep
    \/ ProxyDialerStep
    \/ ProxyDial(1)
    \/ DialSteps(1)

SpecProxy == Init /\ [][NextProxy]_vars

\* the option lists of at most MaxOpts options a caller of NewDialer can
\* write: DialerAuth with any strings, the empty ones included, and
\* DialerTorIsolation
ConfigOpts == AuthOpts \cup { AuthOpt(<<>>, <<>>) } \cup TorOpts
OptLists == UNION { [1 .. n -> ConfigOpts] : n \in 0 .. MaxOpts }

\* d, err := NewDialer(conn, os...) with any of these lists
NewDialerListStep ==
    /\ stage = "new"
    /\ \E os \in OptLists :
         LET r == NewDialer(os)
         IN  /\ opts' = os
             /\ d' = r.d
             /\ newErr' = r.err
             /\ stage' = IF r.err = Nil THEN "ready" ELSE "failed"
    /\ UNCHANGED <<proxy, mux, conn, buf, args, pc, ret>>

\* the construction of a Dialer from a list of options
NextConfig == NewDialerListStep

SpecConfig == Init /\ [][NextConfig]_vars

(***************************************************************************)
(* Vocabulary of the properties.                                           *)
(***************************************************************************)
Log == conn.log

\* the positions of connect
ConnectPositions ==
    { "greeting", "method", "auth", "authreply", "request", "reply",
      "addr4", "addr16", "domlen", "domain", "port" }

\* caller p found d.used false: its call is the first Dial call
GuardPassed(p) ==
    \/ pc[p] \in {"set", "unlock", "parse", "finish", "panic"} \cup ConnectPositions
    \/ pc[p] = "done" /\ args[p] # NoArgs

\* the first Dial call has returned, from caller p
FirstReturned(p) == pc[p] = "done" /\ GuardPassed(p)

Returned(p, c, e) == pc[p] = "done" /\ ret[p] = [conn |-> c, err |-> e]

WriteAt(i) == i \in DOMAIN Log /\ Log[i].op = "write"
ReadAt(i) == i \in DOMAIN Log /\ Log[i].op = "read"
\* a read that returned all its bytes, and these are data
GotAt(i, data) == ReadAt(i) /\ Log[i].err = Nil /\ Log[i].data = data

\* the frames by their place in the exchange: the greeting is the first
\* operation, the method selection the second; the username/password request
\* follows a selection of method 2, the connect request a selection of
\* method 0 or a username/password reply <<1, 0>>
GreetingAt(i) == i = 1 /\ WriteAt(i)
MethodReplyAt(i) == i = 2 /\ ReadAt(i) /\ GreetingAt(1)
AuthRequestAt(i) == i = 3 /\ WriteAt(i) /\ GotAt(2, <<5, 2>>)
AuthReplyAt(i) == i = 4 /\ ReadAt(i) /\ AuthRequestAt(3)
ConnectRequestAt(i) ==
    /\ WriteAt(i)
    /\ \/ i = 3 /\ GotAt(2, <<5, 0>>)
       \/ i = 5 /\ AuthRequestAt(3) /\ GotAt(4, <<1, 0>>)
ConnectReplyAt(i) == ReadAt(i) /\ ConnectRequestAt(i - 1)

Writes == { i \in DOMAIN Log : WriteAt(i) }

(***************************************************************************)
(* The properties.                                                         *)
(***************************************************************************)
\* C1: whenever the first Dial call returns an error, whatever its cause,
\* the stream has been closed.  (Dial returns the errors of
\* net.SplitHostPort and strconv.Atoi at lines 133-139 without closing.)
C1_ErrorClosesStream ==
    \A p \in Callers : (FirstReturned(p) /\ ret[p].err # Nil) => conn.closed

\* C2: once the first Dial call has returned, every other call is either not
\* past Lock, at the guard, or has returned ErrConnUsed, and every operation
\* on the stream (read, write, close) is the first call's: a later call
\* leaves the stream as it found it.
C2_SecondCallRejected ==
    \A q \in Callers : FirstReturned(q) =>
        /\ \A p \in Callers \ {q} :
             pc[p] \in {"idle", "check"} \/ Returned(p, FALSE, ErrConnUsed)
        /\ \A i \in DOMAIN Log : Log[i].by = q

\* C2's case: the first call returned the stream after a handshake, and
\* another call returned ErrConnUsed
C2_Witness ==
    \E q \in Callers, p \in Callers :
        /\ p # q
        /\ FirstReturned(q) /\ ret[q].conn /\ Len(Log) >= 4
        /\ Returned(p, FALSE, ErrConnUsed)

\* C3: in every interleaving at most one call finds d.used false, and every
\* operation on the stream is that call's.
C3_AtMostOnePasses ==
    /\ Cardinality({ p \in Callers : GuardPassed(p) }) <= 1
    /\ \A i \in DOMAIN Log : GuardPassed(Log[i].by)

\* C3's case: while one call is in the middle of the handshake, a concurrent
\* call holds the mutex at the guard
C3_Witness ==
    \E p \in Callers, q \in Callers :
        /\ pc[p] = "reply" /\ Len(Log) >= 3
        /\ pc[q] = "check" /\ mux

\* C4: the handshake of Proxy.Dial on a Proxy with a username, or with the
\* isolation flag, offers username/password in its greeting, and its Dialer
\* carries the Proxy's credentials, respectively two 16-character isolation
\* credentials.  (Proxy.Dial builds Dialer{conn: c}, not p.Dialer(c).)
C4_ProxyDialUsesConfig ==
    (stage = "private" /\ GreetingAt(1)) =>
        /\ proxy.Username # <<>> =>
             /\ Log[1].data = <<5, 2, 0, 2>>
             /\ d.user = proxy.Username /\ d.pass = proxy.Password
        /\ proxy.TorIsolation =>
             /\ Log[1].data = <<5, 2, 0, 2>>
             /\ Len(d.user) = 16 /\ Len(d.pass) = 16

\* C5: a host, a username or a password longer than 255 bytes makes Dial
\* fail, and in every username/password request and connect request written
\* each length byte is the length of the string that follows it.
\* (byte(len(s)) at lines 200, 202 and 232 wraps and the frame is written.)
C5_LengthFieldsMatch ==
    /\ \A i \in DOMAIN Log : AuthRequestAt(i) =>
         /\ Log[i].data[2] = Len(d.user)
         /\ Log[i].data[3 + Len(d.user)] = Len(d.pass)
    /\ \A i \in DOMAIN Log : ConnectRequestAt(i) =>
         Log[i].data[5] = Len(d.host)
    /\ \A p \in Callers :
         (FirstReturned(p) /\ (Len(d.host) > 255 \/ Len(d.user) > 255
                               \/ Len(d.pass) > 255))
         => ret[p].err # Nil

\* C6: for a host of at most 255 bytes and a port in 0..65535, the connect
\* request written is 5, 1, 0, 3, the host's length, the host of the addr
\* argument, and two bytes hi, lo with hi * 256 + lo the port.
C6_ConnectRequestLayout ==
    \A i \in DOMAIN Log :
        (ConnectRequestAt(i) /\ Len(d.host) <= 255 /\ d.port \in 0 .. 65535) =>
            LET f == Log[i].data
                n == Len(d.host)
            IN  /\ Len(f) = 7 + n
                /\ SubSeq(f, 1, 5) = <<5, 1, 0, 3, n>>
                /\ SubSeq(f, 6, 5 + n) = d.host
                /\ SubSeq(args[Log[i].by].addr, 1, n + 1) = d.host \o <<58>>
                /\ f[6 + n] \in 0 .. 255 /\ f[7 + n] \in 0 .. 255
                /\ f[6 + n] * 256 + f[7 + n] = d.port

\* C6's case: a connect request for a 255-byte host and port 443 is written
C6_Witness ==
    \E i \in DOMAIN Log :
        /\ ConnectRequestAt(i) /\ Log[i].err = Nil
        /\ Len(d.host) = 255 /\ d.port = 443
        /\ Log[i].data[261] = 1 /\ Log[i].data[262] = 187

\* the first call has decided error e: connect has returned with d.err = e,
\* and once Dial has returned it returned e with the stream closed
Failed(p, e) ==
    /\ pc[p] \in {"finish", "done"}
    /\ d.err = e
    /\ pc[p] = "done" => (Returned(p, FALSE, e) /\ conn.closed)

\* nothing but Dial's Close follows operation i of the stream
OnlyCloseAfter(i) ==
    Len(Log) = i \/ (Len(Log) = i + 1 /\ Log[i + 1].op = "close")

\* C7: with no credentials, when the server selects no-auth and replies
\* granted with an IPv4-shaped bound address and a 2-byte port, the client
\* goes from each reply to the next step, Dial returns the stream and a nil
\* error, the stream is not closed, and exactly two frames, the greeting and
\* the connect request, have been written.
C7_NoAuthIPv4Succeeds ==
    \A p \in Callers :
        (GuardPassed(p) /\ d.user = <<>> /\ d.pass = <<>> /\ GotAt(2, <<5, 0>>)) =>
            /\ Len(Log) = 2 => pc[p] = "request"
            /\ (ConnectReplyAt(4) /\ GotAt(4, <<5, 0, 0, 1>>)) =>
                 /\ Writes = {1, 3}
                 /\ Log[1].data = <<5, 1, 0>>
                 /\ Len(Log) = 4 => pc[p] = "addr4"
                 /\ (Len(Log) = 5 /\ GotAt(5, Rep(0, 4))) => pc[p] = "port"
                 /\ (GotAt(5, Rep(0, 4)) /\ GotAt(6, <<0, 80>>)) =>
                      /\ Len(Log) = 6
                      /\ ~conn.closed
                      /\ pc[p] \in {"finish", "done"}
                      /\ d.err = Nil
                      /\ pc[p] = "done" => Returned(p, TRUE, Nil)

\* C7's case: Dial has returned the stream after that exchange
C7_Witness ==
    \E p \in Callers :
        /\ d.user = <<>> /\ d.pass = <<>>
        /\ GotAt(2, <<5, 0>>) /\ ConnectReplyAt(4) /\ GotAt(4, <<5, 0, 0, 1>>)
        /\ GotAt(5, Rep(0, 4)) /\ GotAt(6, <<0, 80>>)
        /\ Returned(p, TRUE, Nil)

\* C8: when the method selection is version 5 with method 0xFF or method 1,
\* Dial returns ErrNoAcceptableAuthMethod with the stream closed, and the
\* greeting is the only frame written.
C8_NoAcceptableMethod ==
    \A p \in Callers :
        (GuardPassed(p) /\ (GotAt(2, <<5, 255>>) \/ GotAt(2, <<5, 1>>))) =>
            /\ Failed(p, ErrNoAcceptableAuthMethod)
            /\ Writes = {1}
            /\ OnlyCloseAfter(2)

\* C8's case: Dial has returned after the server selected GSS-API
C8_Witness ==
    \E p \in Callers :
        /\ GotAt(2, <<5, 1>>)
        /\ Returned(p, FALSE, ErrNoAcceptableAuthMethod)
        /\ conn.closed

\* C9: in a handshake with credentials where the server selects
\* username/password and its reply is version 1 with a nonzero status, Dial
\* returns ErrAuthFailed with the stream closed and no connect request is
\* written.
C9_AuthFailed ==
    \A p \in Callers :
        (/\ GuardPassed(p) /\ d.user # <<>>
         /\ AuthReplyAt(4) /\ Log[4].err = Nil
         /\ Log[4].data[1] = 1 /\ Log[4].data[2] # 0) =>
            /\ Failed(p, ErrAuthFailed)
            /\ Writes = {1, 3}
            /\ \A i \in DOMAIN Log : ~ConnectRequestAt(i)
            /\ OnlyCloseAfter(4)

\* C9's case: Dial has returned after the reply <<1, 255>> to the
\* credentials "u", "p"
C9_Witness ==
    \E p \in Callers :
        /\ d.user = UserU /\ d.pass = PassP
        /\ AuthReplyAt(4) /\ GotAt(4, <<1, 255>>)
        /\ Log[1].data = <<5, 2, 0, 2>>
        /\ Returned(p, FALSE, ErrAuthFailed)
        /\ conn.closed

\* the reasons of the status table, in the order of the status codes 1..8
C10_Table ==
    << "general failure", "connection not allowed by ruleset",
       "network unreachable", "host unreachable",
       "connection refused by destination host", "TTL expired",
       "command not supported / protocol error", "address type not supported" >>

\* C10: for a connect reply of version 5 with a nonzero status s, Dial
\* returns the table's error for s in 1..8 and ErrInvalidProxyResponse for
\* s in 9..255, with the stream closed.
C10_StatusErrors ==
    \A p \in Callers : \A i \in DOMAIN Log :
        (/\ GuardPassed(p)
         /\ ConnectReplyAt(i) /\ Log[i].err = Nil
         /\ Log[i].data[1] = 5 /\ Log[i].data[2] # 0) =>
            LET st == Log[i].data[2]
            IN  /\ Failed(p, IF st \in 1 .. 8 THEN C10_Table[st]
                                             ELSE ErrInvalidProxyResponse)
                /\ OnlyCloseAfter(i)

\* C10's case: Dial has returned "connection refused by destination host"
\* for status 5
C10_Witness ==
    \E p \in Callers : \E i \in DOMAIN Log :
        /\ ConnectReplyAt(i) /\ GotAt(i, <<5, 5, 0, 1>>)
        /\ Returned(p, FALSE, "connection refused by destination host")
        /\ conn.closed

\* the lowercase hexadecimal digits 0-9 and a-f
LowerHex == (48 .. 57) \cup (97 .. 102)
IsHex16(s) == Len(s) = 16 /\ \A i \in 1 .. 16 : s[i] \in LowerHex

\* the credentials on the dialer when option k of os is applied and only
\* DialerAuth options come before it: those of the last of them
CredsBefore(os, k) ==
    LET A == { j \in 1 .. (k - 1) : os[j].kind = "auth" }
    IN  IF A = {}
        THEN << <<>>, <<>> >>
        ELSE LET m == CHOOSE j \in A : \A x \in A : x <= j
             IN  <<os[m].user, os[m].pass>>

\* C11: the isolation option applied to a dialer whose username or password
\* is set fails with "credentials already set" and NewDialer returns no
\* dialer; applied to a dialer without credentials it sets a username and a
\* password of exactly 16 lowercase hex characters each, the one other
\* outcome being the error of a failed read of the random source, which
\* NewDialer returns with no dialer.
C11_IsolationOption ==
    \A k \in DOMAIN opts :
        (stage # "new" /\ opts[k].kind = "tor"
            /\ \A j \in 1 .. (k - 1) : opts[j].kind = "auth")
        => IF CredsBefore(opts, k) # << <<>>, <<>> >>
           THEN stage = "failed" /\ newErr = ErrCredentialsSet /\ d = ZeroDialer
           ELSE IF opts[k].randErr # Nil
           THEN stage = "failed" /\ newErr = opts[k].randErr /\ d = ZeroDialer
           ELSE k = Len(opts)
                => /\ stage = "ready" /\ newErr = Nil
                   /\ IsHex16(d.user) /\ IsHex16(d.pass)

\* the isolation option was refused after DialerAuth("u", "p")
C11_Witness ==
    /\ stage = "failed" /\ newErr = ErrCredentialsSet /\ d = ZeroDialer
    /\ Len(opts) = 2
    /\ opts[1] = AuthOpt(UserU, PassP)
    /\ opts[2].kind = "tor"

\* caller q holds d.mux: it is between Lock and the end of the guard
HoldsMux(q) == pc[q] \in {"check", "set", "unlock"}

\* C12: every Dial call on a used Dialer returns ErrConnUsed, the second,
\* the third and every later one, and none blocks forever on the guard: a
\* call that has returned on a used Dialer returned ErrConnUsed or was the
\* first, and a call on a used Dialer that is at Lock finds the mutex free
\* or held by a call that is still inside the guard.
C12_UsedDialerCallsReturn ==
    \A p \in Callers :
        /\ (pc[p] = "done" /\ ~GuardPassed(p))
            => Returned(p, FALSE, ErrConnUsed)
        /\ (stage = "ready" /\ d.used /\ pc[p] = "idle" /\ ~Crashed)
            => (CanLock(mux) \/ \E q \in Callers : HoldsMux(q))

\* the connect reply read at i is of the right version, status granted and
\* an address type that is none of IPv4, domain and IPv6
UnknownAddrTypeAt(i) ==
    /\ ConnectReplyAt(i)
    /\ Log[i].err = Nil
    /\ Log[i].data[1] = protocolVersion
    /\ Log[i].data[2] = statusRequestGranted
    /\ Log[i].data[4] \notin {addressTypeIPv4, addressTypeDomain, addressTypeIPv6}

\* C13: after a connect reply of the right version with status granted and
\* an address type other than 1, 3 and 4, Dial returns
\* ErrInvalidProxyResponse with the stream closed: no later step overwrites
\* the error, and Dial never returns success.
C13_UnknownAddrTypeFails ==
    \A p \in Callers : \A i \in DOMAIN Log :
        (UnknownAddrTypeAt(i) /\ FirstReturned(p))
        => (Returned(p, FALSE, ErrInvalidProxyResponse) /\ conn.closed)

\* the connect reply read at i is granted with a domain-shaped bound
\* address, and the read at i + 1 returned its length byte
DomainReplyAt(i) ==
    /\ ConnectReplyAt(i)
    /\ GotAt(i, <<protocolVersion, statusRequestGranted, 0, addressTypeDomain>>)
    /\ ReadAt(i + 1) /\ Log[i + 1].err = Nil /\ Log[i + 1].n = 1

\* C14: after a granted connect reply with a domain-shaped bound address,
\* whatever the length byte n in 0..255 and whatever host, username and
\* password are configured, the handshake does not abort on its buffer; it
\* reads the 1 length byte, then the n address bytes, then the 2 port bytes,
\* and when these reads return their bytes Dial returns success.
C14_DomainReplyRead ==
    \A p \in Callers : \A i \in DOMAIN Log :
        (DomainReplyAt(i) /\ GuardPassed(p))
        => LET n == Log[i + 1].data[1]
               a == IF n = 0 THEN i + 1 ELSE i + 2
           IN  /\ pc[p] # "panic"
               /\ (n > 0 /\ Len(Log) >= i + 2)
                    => (ReadAt(i + 2) /\ Log[i + 2].n = n)
               /\ (Len(Log) > a /\ Log[a].err = Nil)
                    => (ReadAt(a + 1) /\ Log[a + 1].n = 2)
               /\ (pc[p] = "done" /\ Len(Log) > a /\ Log[a].err = Nil
                        /\ Log[a + 1].err = Nil)
                    => (Returned(p, TRUE, Nil) /\ ~conn.closed)

\* credentials are present on the dialer: a username or a password
HasCredentials == d.user # <<>> \/ d.pass # <<>>

\* C15: the greeting always lists method 0; it lists method 2 as well, with
\* the method count 2, exactly when credentials are present on the dialer,
\* an empty username with a non-empty password included.
C15_GreetingMethods ==
    GreetingAt(1)
    => Log[1].data =
         IF HasCredentials
         THEN <<protocolVersion, 2, authNone, authUsernamePassword>>
         ELSE <<protocolVersion, 1, authNone>>

\* C16: a username/password request is written only when the greeting
\* offered method 2: when the server selects method 2 after a greeting that
\* offered no-auth alone, the handshake fails with no credential frame
\* written.
C16_AuthOnlyWhenOffered ==
    /\ \A i \in DOMAIN Log :
          AuthRequestAt(i) => Log[1].data[2] = 2 /\ Log[1].data[4] = authUsernamePassword
    /\ \A p \in Callers :
          (GotAt(2, <<protocolVersion, authUsernamePassword>>)
                /\ Log[1].data = <<protocolVersion, 1, authNone>>
                /\ GuardPassed(p))
          => /\ pc[p] \in {"finish", "done"}
             /\ d.err # Nil
             /\ Writes = {1}

\* the three frames of the client by their content
IsGreeting(f) == Len(f) \in {3, 4} /\ f[1] = protocolVersion /\ f[2] = Len(f) - 2
IsAuthRequest(f) == Len(f) >= 3 /\ f[1] = 1
IsConnectRequest(f) ==
    /\ Len(f) >= 7
    /\ SubSeq(f, 1, 4) = <<protocolVersion, commandTCPConnect, 0, addressTypeDomain>>

\* the read at i returned all the bytes asked for
FullRead(i) == ReadAt(i) /\ Log[i].err = Nil /\ Len(Log[i].data) = Log[i].n

\* C17: the exchange is request/response in sequence: the writes are, in
\* this order, the greeting, the username/password request if any, and the
\* connect request, each frame written once; every write after the first
\* comes directly after the full read of the 2-byte reply to the frame
\* before it, which was written without error and whose reply lets the
\* handshake go on; and nothing is written once an operation has failed or
\* d.err is set.
C17_SequentialExchange ==
    /\ Writes \subseteq {1, 3, 5}
    /\ WriteAt(1) => IsGreeting(Log[1].data)
    /\ WriteAt(3) =>
          \/ IsAuthRequest(Log[3].data) /\ Log[2].data = <<protocolVersion, authUsernamePassword>>
          \/ IsConnectRequest(Log[3].data) /\ Log[2].data = <<protocolVersion, authNone>>
    /\ WriteAt(5) =>
          /\ IsConnectRequest(Log[5].data)
          /\ IsAuthRequest(Log[3].data)
          /\ Log[4].data = <<1, 0>>
    /\ \A i \in Writes \ {1} :
          /\ FullRead(i - 1) /\ Log[i - 1].n = 2
          /\ WriteAt(i - 2) /\ Log[i - 2].err = Nil
    /\ \A i \in DOMAIN Log : \A j \in Writes : Log[i].err # Nil => j <= i
    /\ d.err # Nil => \A p \in Callers : pc[p] \notin {"greeting", "auth", "request"}

\* the three frames were written and the handshake succeeded
C17_Witness ==
    /\ Writes = {1, 3, 5}
    /\ IsGreeting(Log[1].data) /\ IsAuthRequest(Log[3].data)
    /\ IsConnectRequest(Log[5].data)
    /\ \E p \in Callers : Returned(p, TRUE, Nil)

\* operation i of the stream is a write that failed or a read that returned
\* fewer bytes than asked for, with its error
StreamFailedAt(i) ==
    /\ WriteAt(i) \/ ReadAt(i)
    /\ Log[i].err # Nil
    /\ ReadAt(i) => Len(Log[i].data) < Log[i].n

\* C18: when a write to the stream fails or a read returns fewer bytes than
\* asked for, at any step of the handshake, that operation is the last read
\* or write, connect returns with exactly its error, which is no protocol
\* error, and Dial returns that error with no connection and the stream
\* closed.
C18_StreamErrorReturned ==
    \A p \in Callers : \A i \in DOMAIN Log :
        (StreamFailedAt(i) /\ GuardPassed(p))
        => /\ Log[i].err \in WriteErrs \cup ReadErrs
           /\ Failed(p, Log[i].err)
           /\ OnlyCloseAfter(i)

\* the read of the connect reply came short and Dial has returned its error
C18_Witness ==
    \E p \in Callers : \E i \in DOMAIN Log :
        /\ ConnectReplyAt(i) /\ StreamFailedAt(i)
        /\ Log[i].err = "unexpected EOF"
        /\ Returned(p, FALSE, "unexpected EOF")
        /\ conn.closed

\* the reply read in full at i is one of the three server replies and its
\* version byte is not the expected one
BadVersionAt(i) ==
    /\ FullRead(i)
    /\ \/ MethodReplyAt(i) /\ Log[i].data[1] # protocolVersion
       \/ AuthReplyAt(i) /\ Log[i].data[1] # 1
       \/ ConnectReplyAt(i) /\ Log[i].data[1] # protocolVersion

\* C19: a version byte other than 5 in the method selection, other than 1
\* in the username/password reply or other than 5 in the connect reply,
\* whatever bytes follow it, makes connect return ErrInvalidProxyResponse
\* and Dial return it with the stream closed; nothing is read or written
\* after that reply.
C19_BadVersionFails ==
    \A p \in Callers : \A i \in DOMAIN Log :
        (BadVersionAt(i) /\ GuardPassed(p))
        => /\ Failed(p, ErrInvalidProxyResponse)
           /\ OnlyCloseAfter(i)
           /\ \A j \in Writes : j < i

\* the username/password reply <<0, 1>>, of version 0 and a non-zero
\* status, and Dial has returned
C19_Witness ==
    \E p \in Callers :
        /\ AuthReplyAt(4) /\ GotAt(4, <<0, 1>>)
        /\ BadVersionAt(4)
        /\ Returned(p, FALSE, ErrInvalidProxyResponse)
        /\ conn.closed

\* option o is DialerAuth with a username or a password that is not empty
IsExplicitCredentials(o) == o.kind = "auth" /\ (o.user # <<>> \/ o.pass # <<>>)

\* C20: explicit credentials and isolation exclude each other in either
\* order: NewDialer, given a list of options with both a DialerAuth of
\* non-empty credentials and a DialerTorIsolation in it, whichever comes
\* first, fails and returns no dialer.
C20_MutuallyExclusive ==
    (/\ stage # "new"
     /\ \E j \in DOMAIN opts : IsExplicitCredentials(opts[j])
     /\ \E k \in DOMAIN opts : opts[k].kind = "tor")
    => (stage = "failed" /\ newErr # Nil /\ d = ZeroDialer)

====
